---- MODULE Spec2Model ----
(***************************************************************************)
(* Model of the truss/cable capacity scripts AT_BB_HW02.py (hard-coded     *)
(* steel/aluminum strengths) and AT_BB_HW02_04.py (materials table).       *)
(*                                                                         *)
(* Python floats are modelled as binary floating-point numbers with a      *)
(* Precision-bit significand and round-to-nearest-even, so that every      *)
(* arithmetic step of the scripts rounds the way IEEE arithmetic does.     *)
(* A Python int carries the kind "int"; the scripts only use ints small    *)
(* enough to be exact.  The database variant computes with numpy scalars   *)
(* from the table look-up on: there a zero divisor gives inf or nan and    *)
(* round() is numpy's.  Python dicts are ordered association lists.        *)
(***************************************************************************)
EXTENDS Integers, Sequences, FiniteSets, TLC

\* Width of the significand of the modelled floats (53 in CPython).
Precision == 14

(***************************************************************************)
(* Binary floating point                                                   *)
(***************************************************************************)
RECURSIVE Pow2(_)
Pow2(n) == IF n <= 0 THEN 1 ELSE 2 * Pow2(n - 1)

RECURSIVE Pow10(_)
Pow10(n) == IF n <= 0 THEN 1 ELSE 10 * Pow10(n - 1)

RECURSIVE BitLen(_)
BitLen(n) == IF n <= 0 THEN 0 ELSE 1 + BitLen(n \div 2)

\* A number: kinds "float" and "int" are s * m * 2^e, kind "complex" is the
\* purely imaginary s * m * 2^e * j, kind "dec" is the decimal s * m * 10^e
\* that round(x, ndigits) returns, "inf" and "nan" are the IEEE specials, kind
\* "unset" is a name not yet bound.
Num(k, s, m, e) == [kind |-> k, s |-> s, m |-> m, e |-> e]

Zero == Num("float", 1, 0, 0)

NaN == Num("nan", 1, 1, 0)

Inf(s) == Num("inf", s, 1, 0)

IsNaN(a) == a.kind = "nan"

IsInf(a) == a.kind = "inf"

Unset == Num("unset", 1, 0, 0)

\* Round the positive real (n + f) * 2^e, with 0 < f < 1 if sticky and f = 0
\* otherwise, to Precision bits, ties to even.  With sticky set, n carries at
\* least Precision + 1 bits.
RoundNE(s, n, sticky, e) ==
    IF n = 0 THEN Zero
    ELSE LET len == BitLen(n)
         IN  IF len <= Precision
             THEN Num("float", s, n * Pow2(Precision - len), e - (Precision - len))
             ELSE LET sh   == len - Precision
                      q    == n \div Pow2(sh)
                      r    == n % Pow2(sh)
                      half == Pow2(sh - 1)
                      up   == \/ r > half
                              \/ r = half /\ (sticky \/ q % 2 = 1)
                      m    == IF up THEN q + 1 ELSE q
                  IN  IF m = Pow2(Precision)
                      THEN Num("float", s, Pow2(Precision - 1), e + sh + 1)
                      ELSE Num("float", s, m, e + sh)

\* float(n)
FromInt(n) == IF n < 0 THEN RoundNE(-1, -n, FALSE, 0) ELSE RoundNE(1, n, FALSE, 0)

\* The int n
IntVal(n) == [FromInt(n) EXCEPT !.kind = "int"]

\* k further quotient bits of r / d (0 <= r < d), never forming 2 * r >= d.
RECURSIVE LongDiv(_, _, _, _)
LongDiv(q, r, d, k) ==
    IF k = 0 THEN [q |-> q, r |-> r]
    ELSE IF r >= d - r
         THEN LongDiv(2 * q + 1, r - (d - r), d, k - 1)
         ELSE LongDiv(2 * q, r + r, d, k - 1)

\* The float nearest to the decimal literal ip + fnum / fden.
Literal(ip, fnum, fden) ==
    LET k  == Precision + 2
        qr == LongDiv(ip, fnum, fden, k)
    IN  RoundNE(1, qr.q, qr.r # 0, -k)

IsZero(a) == a.m = 0

FNeg(a) == IF a.m = 0 \/ IsNaN(a) THEN a ELSE [a EXCEPT !.s = -a.s]

\* Magnitudes only; the kind and the sign are set by the callers below.
MulMag(s, a, b) == RoundNE(s, a.m * b.m, FALSE, a.e + b.e)

DivMag(s, a, b) ==
    LET k  == Precision + 2
        qr == LongDiv(a.m \div b.m, a.m % b.m, b.m, k)
    IN  RoundNE(s, qr.q, qr.r # 0, a.e - b.e - k)

AsKind(k, a) == [a EXCEPT !.kind = k]

ResultKind(a, b) ==
    IF (a.kind = "complex") # (b.kind = "complex") THEN "complex" ELSE "float"

\* i * i = -1
ResultSign(a, b) ==
    IF a.kind = "complex" /\ b.kind = "complex" THEN -(a.s * b.s) ELSE a.s * b.s

\* a * b
FMul(a, b) ==
    IF IsNaN(a) \/ IsNaN(b) THEN NaN
    ELSE IF IsInf(a) \/ IsInf(b)
         THEN (IF a.m = 0 \/ b.m = 0 THEN NaN ELSE Inf(a.s * b.s))
    ELSE IF a.m = 0 \/ b.m = 0 THEN Zero
    ELSE AsKind(ResultKind(a, b), MulMag(ResultSign(a, b), a, b))

\* a / b for b # 0 (the callers deal with a zero divisor first); 1 / j = -j
FDiv(a, b) ==
    IF IsNaN(a) \/ IsNaN(b) THEN NaN
    ELSE IF IsInf(a) THEN (IF IsInf(b) THEN NaN ELSE Inf(a.s * b.s))
    ELSE IF IsInf(b) \/ a.m = 0 THEN Zero
    ELSE AsKind(ResultKind(a, b),
                DivMag(IF b.kind = "complex" /\ a.kind # "complex"
                       THEN -(a.s * b.s) ELSE a.s * b.s, a, b))

\* a / b on numpy scalars: a zero divisor gives nan or inf with a warning
NpDivide(a, b) ==
    IF b.m = 0
    THEN (IF IsNaN(a) \/ a.m = 0 THEN NaN ELSE Inf(a.s))
    ELSE FDiv(a, b)

\* |a| < |b| for normalised non-zero a, b
MagLt(a, b) == a.e < b.e \/ (a.e = b.e /\ a.m < b.m)

\* a < b on floats and ints
FLt(a, b) ==
    IF IsNaN(a) \/ IsNaN(b) THEN FALSE
    ELSE IF IsInf(a) THEN a.s = -1 /\ ~(IsInf(b) /\ b.s = -1)
    ELSE IF IsInf(b) THEN b.s = 1
    ELSE IF a.m = 0 THEN b.m # 0 /\ b.s = 1
    ELSE IF b.m = 0 THEN a.s = -1
    ELSE IF a.s # b.s THEN a.s = -1
    ELSE IF a.s = 1 THEN MagLt(a, b) ELSE MagLt(b, a)

IsReal(a) == a.kind \in {"float", "int"}

\* a == b
FEq(a, b) ==
    IF IsNaN(a) \/ IsNaN(b) THEN FALSE
    ELSE IF IsReal(a) /\ IsReal(b)
         THEN a.m = b.m /\ (a.m = 0 \/ (a.s = b.s /\ a.e = b.e))
    ELSE a.kind = b.kind /\ a.s = b.s /\ a.m = b.m /\ a.e = b.e

FLe(a, b) == FLt(a, b) \/ FEq(a, b)

\* Bits by which the larger operand of a sum can be shifted left exactly.
Guard == 29 - Precision

\* big + small, |big| >= |small| > 0
AddOrdered(big, small) ==
    LET d    == big.e - small.e
        same == big.s = small.s
    IN  IF d <= Guard
        THEN LET n == big.m * Pow2(d) + (IF same THEN small.m ELSE -small.m)
             IN  RoundNE(big.s, n, FALSE, small.e)
        ELSE LET sh  == d - Guard
                 q   == IF sh >= Precision THEN 0 ELSE small.m \div Pow2(sh)
                 st  == IF sh >= Precision THEN TRUE ELSE small.m % Pow2(sh) # 0
                 nb  == big.m * Pow2(Guard)
                 n   == IF same THEN nb + q
                        ELSE nb - q - (IF st THEN 1 ELSE 0)
             IN  RoundNE(big.s, n, st, big.e - Guard)

\* a + b on floats
FAdd(a, b) ==
    IF IsNaN(a) \/ IsNaN(b) THEN NaN
    ELSE IF IsInf(a) THEN (IF IsInf(b) /\ b.s # a.s THEN NaN ELSE a)
    ELSE IF IsInf(b) THEN b
    ELSE IF a.m = 0 THEN b
    ELSE IF b.m = 0 THEN a
    ELSE IF MagLt(a, b) THEN AddOrdered(b, a) ELSE AddOrdered(a, b)

\* a - b on floats
FSub(a, b) == FAdd(a, FNeg(b))

\* floor(sqrt(n)), found bit by bit from 2^k downwards
RECURSIVE ISqrtBits(_, _, _)
ISqrtBits(n, r, k) ==
    IF k < 0 THEN r
    ELSE LET t == r + Pow2(k)
         IN  IF t * t <= n THEN ISqrtBits(n, t, k - 1) ELSE ISqrtBits(n, r, k - 1)

ISqrt(n) == ISqrtBits(n, 0, Precision - 1)

\* the correctly rounded square root of |a|
SqrtMag(a) ==
    LET k  == IF (a.e - (Precision - 1)) % 2 = 0 THEN Precision - 1 ELSE Precision
        n  == a.m * Pow2(k)
        r  == ISqrt(n)
        m  == IF n > r * r + r THEN r + 1 ELSE r
        e  == (a.e - k) \div 2
    IN  IF m = Pow2(Precision) THEN Num("float", 1, Pow2(Precision - 1), e + 1)
        ELSE Num("float", 1, m, e)

\* x ** (1/2): a float for x >= 0; for x < 0 CPython returns the complex
\* number whose imaginary part is sqrt(-x) (and a real part of rounding noise).
PowHalf(a) ==
    IF a.m = 0 THEN Zero
    ELSE IF a.s = 1 THEN SqrtMag(a)
    ELSE AsKind("complex", SqrtMag(a))

\* round(x, nd) on a Python float: the decimal with nd places nearest to x,
\* ties to even.
RoundDec(a, nd) ==
    IF a.m = 0 THEN Num("dec", 1, 0, -nd)
    ELSE LET num == a.m * Pow10(nd)
         IN  IF a.e >= 0 THEN Num("dec", a.s, num * Pow2(a.e), -nd)
             ELSE IF -a.e > 30 THEN Num("dec", 1, 0, -nd)
             ELSE LET den == Pow2(-a.e)
                      q   == num \div den
                      r   == num % den
                      up  == r > den - r \/ (r = den - r /\ q % 2 = 1)
                      n   == IF up THEN q + 1 ELSE q
                  IN  Num("dec", IF n = 0 THEN 1 ELSE a.s, n, -nd)

\* round(x, nd) on a numpy scalar: x * 10^nd is rounded to a float, that to
\* the nearest integer, ties to even, and the integer divided by 10^nd; the
\* quotient is kept as the decimal it is nearest to.  inf and nan stay.
NpRound(a, nd) ==
    IF IsNaN(a) \/ IsInf(a) THEN a
    ELSE [RoundDec(FMul(a, FromInt(Pow10(nd))), 0) EXCEPT !.e = -nd]

(***************************************************************************)
(* Python dicts: association lists in insertion order                      *)
(***************************************************************************)
Item(k, v) == [k |-> k, v |-> v]

DictHas(d, k) == \E i \in 1..Len(d) : d[i].k = k

DictGet(d, k) == d[CHOOSE i \in 1..Len(d) : d[i].k = k].v

\* d[k] = v: replaces the value in place, or appends a new key
DictSet(d, k, v) ==
    IF DictHas(d, k)
    THEN [i \in 1..Len(d) |-> IF d[i].k = k THEN Item(k, v) ELSE d[i]]
    ELSE Append(d, Item(k, v))

DictKeys(d) == [i \in 1..Len(d) |-> d[i].k]

DictValues(d) == [i \in 1..Len(d) |-> d[i].v]

KeySet(d) == {d[i].k : i \in 1..Len(d)}

\* md[prop][member]
Entry(md, prop, member) == DictGet(DictGet(md, prop), member)

\* md[prop][member] = v
SetEntry(md, prop, member, v) == DictSet(md, prop, DictSet(DictGet(md, prop), member, v))

List(items) == [kind |-> "list", items |-> items]

(***************************************************************************)
(* Inputs: the values the user edits at the top of the scripts             *)
(***************************************************************************)
Members == {"ABCD", "AC", "EB", "FD"}

Variants == {"hardcoded", "database"}

aluminum_sigma_U == IntVal(38)

steel_sigma_U == IntVal(70)

\* 3.1415926536
PiLiteral == Literal(3, 176990817, 1250000000)

\* 1.01 and .99
UpOne == Literal(1, 1, 100)

DownOne == Literal(0, 99, 100)

\* The rows of the materials table read by the database variant.
MaterialsTable ==
    << [Material |-> "Stainless 304", Density |-> Literal(0, 289, 1000),
        Cost |-> Literal(2, 1, 2), Yield |-> FromInt(31)],
       [Material |-> "6061-T6", Density |-> Literal(0, 975, 10000),
        Cost |-> Literal(1, 1, 2), Yield |-> FromInt(40)] >>

\* df.loc[df["Material"] == name]: the matching rows
Loc(table, name) == SelectSeq(table, LAMBDA row : row.Material = name)

\* Lengths [in] tried for ABCD and AC, diameters [in], names and targets.
LengthsABCD == {60}

LengthsAC == {15, 24, 30, 36}

\* With a complex height the database variant hands complex numpy scalars to
\* min() and to matplotlib; what those do with them is not determined by the
\* scripts, so the complex height is followed in the hard-coded variant only.
LengthsACFor(v, lengths) == IF v = "database" THEN lengths \ {36} ELSE lengths

DiametersAC == {FDiv(IntVal(3), IntVal(8)), IntVal(1)}

MaterialNames(v) ==
    IF v = "hardcoded" THEN {"steel", "aluminum", "titanium"}
    ELSE {"Stainless 304", "6061-T6", "6061 T6"}

StrongMaterial(v) == IF v = "hardcoded" THEN "steel" ELSE "Stainless 304"

Targets == {IntVal(3), FDiv(IntVal(5), IntVal(2)), Literal(1, 7, 10)}

Timestamps == {"051126_101500", "051126_101501"}

Placeholders(x) ==
    << Item("ABCD", x), Item("AC", x), Item("EB", x), Item("FD", x) >>

PlaceholdersOne ==
    << Item("ABCD", IntVal(0)), Item("AC", IntVal(0)),
       Item("EB", IntVal(1)), Item("FD", IntVal(1)) >>

\* The member_dict literal, for the lengths, diameter and material chosen.
InitialMemberDict(v, abcd, ac, dAC, matAC) ==
    LET length ==
            IF v = "hardcoded"
            THEN << Item("ABCD", IntVal(abcd)), Item("AC", IntVal(ac)) >>
            ELSE << Item("ABCD", IntVal(abcd)), Item("AC", IntVal(ac)),
                    Item("EB", IntVal(36)), Item("FD", IntVal(36)) >>
        diameter ==
            << Item("ABCD", FDiv(IntVal(3), IntVal(8))), Item("AC", dAC),
               Item("EB", FDiv(IntVal(1), IntVal(2))),
               Item("FD", FDiv(IntVal(1), IntVal(2))) >>
        material ==
            << Item("ABCD", StrongMaterial(v)), Item("AC", matAC),
               Item("EB", StrongMaterial(v)), Item("FD", StrongMaterial(v)) >>
        head == << Item("length", length), Item("diameter", diameter),
                   Item("material", material) >>
        extra == IF v = "hardcoded" THEN << >>
                 ELSE << Item("yield_strength", Placeholders(IntVal(0))),
                         Item("weight", Placeholders(IntVal(0))),
                         Item("cost", Placeholders(IntVal(0))) >>
        tail == << Item("points", Placeholders(List(<< >>))),
                   Item("fraction", PlaceholdersOne),
                   Item("max_force", PlaceholdersOne),
                   Item("max_Q_load", Placeholders(IntVal(0))),
                   Item("safety_factor", Placeholders(IntVal(0))),
                   Item("sensitivity", Placeholders(IntVal(0))) >>
    IN  head \o extra \o tail

(***************************************************************************)
(* State                                                                   *)
(***************************************************************************)
VARIABLES
    runs,                  \* the invocations of the script under way
    draws_nonfinite,       \* whether the installed matplotlib draws inf/nan bars
    variant,               \* which of the two scripts is run
    df,                    \* the materials table (database variant)
    safety_factor,         \* the target (minimum) safety factor
    date_time,             \* per run: datetime.now() at start
    member_dict,           \* per run: the member dictionary
    half_length, ABCD_side_length, ABCD_height,
    lowest_strength, first_failure_member, allowable_load,
    cur_safety_factor, SFup_one, SFdown_one,   \* SF_up_one, SF_down_one in the source
    fig,                   \* per run: the figure (line colours, titles, bars)
    files,                 \* the files below save_data, name -> contents
    cursor,                \* per run: position of the running for loop
    pc,                    \* per run: the statement to execute next
    error                  \* per run: the exception that ended the run

inputs == << runs, draws_nonfinite, variant, df, safety_factor, date_time >>

geometry == << half_length, ABCD_side_length, ABCD_height >>

governing == << lowest_strength, first_failure_member, allowable_load >>

loopvars == << cur_safety_factor, SFup_one, SFdown_one >>

vars == << runs, draws_nonfinite, variant, df, safety_factor, date_time, member_dict,
           half_length, ABCD_side_length, ABCD_height,
           lowest_strength, first_failure_member, allowable_load,
           cur_safety_factor, SFup_one, SFdown_one,
           fig, files, cursor, pc, error >>

\* A script whose report is written before the plotting points are filled in.
ProgramSaveEarly ==
    << "geometry", "fractions", "max_Q_load", "lowest", "safety", "save_run",
       "points", "plot", "show" >>

\* The statements of the script, in the order they are written.
Program ==
    << "geometry", "fractions", "max_Q_load", "lowest", "safety", "points",
       "plot", "save_run", "show" >>

Successor(label) ==
    LET i == CHOOSE j \in 1..Len(Program) : Program[j] = label
    IN  IF i = Len(Program) THEN "done" ELSE Program[i + 1]

NoFigure == [colors |-> << >>, suptitle |-> << >>, title |-> Unset, bars |-> << >>]

InitWith(rs, stamps, targets, lengthsAC, diametersAC) ==
    /\ runs = rs
    /\ variant \in Variants
    /\ draws_nonfinite \in (IF variant = "database" THEN BOOLEAN ELSE {TRUE})
    /\ df = MaterialsTable
    /\ safety_factor \in targets
    /\ date_time \in [rs -> stamps]
    /\ \E abcd \in LengthsABCD, ac \in LengthsACFor(variant, lengthsAC), dAC \in diametersAC,
          matAC \in MaterialNames(variant) :
            member_dict = [r \in rs |-> InitialMemberDict(variant, abcd, ac, dAC, matAC)]
    /\ half_length = [r \in rs |-> Unset]
    /\ ABCD_side_length = [r \in rs |-> Unset]
    /\ ABCD_height = [r \in rs |-> Unset]
    /\ lowest_strength = [r \in rs |-> Unset]
    /\ first_failure_member = [r \in rs |-> << >>]
    /\ allowable_load = [r \in rs |-> Unset]
    /\ cur_safety_factor = [r \in rs |-> Unset]
    /\ SFup_one = [r \in rs |-> Unset]
    /\ SFdown_one = [r \in rs |-> Unset]
    /\ fig = [r \in rs |-> NoFigure]
    /\ files = << >>
    /\ cursor = [r \in rs |-> 1]
    /\ pc = [r \in rs |-> Program[1]]
    /\ error = [r \in rs |-> "none"]

\* One run of the script, over all the inputs above.
Init == InitWith({1}, {"051126_101500"}, Targets, LengthsAC, DiametersAC)

\* Two runs of the script started from the same inputs, at any two times.
InitPair == InitWith({1, 2}, Timestamps, {IntVal(3)}, {24, 30, 36}, {IntVal(1)})

(***************************************************************************)
(* The statements of the script                                            *)
(***************************************************************************)
Goto(r, label) == pc' = [pc EXCEPT ![r] = label]

\* An uncaught exception ends the run.
Raise(r, exc) ==
    /\ pc' = [pc EXCEPT ![r] = "crashed"]
    /\ error' = [error EXCEPT ![r] = exc]

\* One more turn of a for loop over n items; after the last one the loop
\* is left for the statement after it.
Advance(r, n) ==
    IF cursor[r] >= n
    THEN /\ cursor' = [cursor EXCEPT ![r] = 1]
         /\ Goto(r, Successor(pc[r]))
    ELSE /\ cursor' = [cursor EXCEPT ![r] = cursor[r] + 1]
         /\ UNCHANGED pc

\* (ABCD_side_length ** 2 - half_length ** 2)**(1/2)
HeightOf(side, half) == PowHalf(FSub(FMul(side, side), FMul(half, half)))

\* Geometric calculations
Geometry(r) ==
    /\ pc[r] = "geometry"
    /\ LET half == FDiv(Entry(member_dict[r], "length", "AC"), IntVal(2))
           side == FDiv(Entry(member_dict[r], "length", "ABCD"), IntVal(4))
       IN  /\ half_length' = [half_length EXCEPT ![r] = half]
           /\ ABCD_side_length' = [ABCD_side_length EXCEPT ![r] = side]
           /\ ABCD_height' = [ABCD_height EXCEPT ![r] = HeightOf(side, half)]
    /\ Goto(r, Successor(pc[r]))
    /\ UNCHANGED << inputs, member_dict, governing, loopvars, fig, files, cursor, error >>

\* frac_x_F_AB and frac_x_F_AC
FracAB(height, side) == FMul(IntVal(2), FDiv(height, side))

FracAC(height, half) == FDiv(height, half)

\* The first store with the key mistyped: Python adds the key "AB".
StoreFractionsTypo(md, fab, fac) ==
    SetEntry(SetEntry(md, "fraction", "AB", fab), "fraction", "AC", fac)

\* member_dict["fraction"]["ABCD"] = ...; member_dict["fraction"]["AC"] = ...
StoreFractions(md, fab, fac) ==
    SetEntry(SetEntry(md, "fraction", "ABCD", fab), "fraction", "AC", fac)

\* Calculate force fractions via geometric relations
Fractions(r) ==
    /\ pc[r] = "fractions"
    /\ IF IsZero(ABCD_side_length[r]) \/ IsZero(half_length[r])
       THEN /\ Raise(r, "ZeroDivisionError")
            /\ UNCHANGED member_dict
       ELSE /\ member_dict' = [member_dict EXCEPT ![r] =
                  StoreFractions(@, FracAB(ABCD_height[r], ABCD_side_length[r]),
                                    FracAC(ABCD_height[r], half_length[r]))]
            /\ Goto(r, Successor(pc[r]))
            /\ UNCHANGED error
    /\ UNCHANGED << inputs, geometry, governing, loopvars, fig, files, cursor >>

\* The if/else on the material name of the hard-coded variant.
Strength(material) ==
    IF material = "steel" THEN steel_sigma_U ELSE aluminum_sigma_U

\* The area with the diameter not squared.
CrossSectionNoSquare(d) == FDiv(FMul(PiLiteral, d), IntVal(4))

\* 3.1415926536 * (member_diameter**2) / 4
CrossSection(d) == FDiv(FMul(PiLiteral, FMul(d, d)), IntVal(4))

\* member_dict["fraction"][member] * u_strength * member_csa
MaxQLoad(fraction, strength, csa) == FMul(FMul(fraction, strength), csa)

\* The body of the max_Q_load loop, hard-coded variant.
StoreCapacity(md, member) ==
    LET u   == Strength(Entry(md, "material", member))
        csa == CrossSection(Entry(md, "diameter", member))
        md1 == SetEntry(md, "max_force", member, FMul(u, csa))
    IN  SetEntry(md1, "max_Q_load", member,
                 MaxQLoad(Entry(md, "fraction", member), u, csa))

\* The body of the max_Q_load loop, database variant, for the table row found.
StoreCapacityFromRow(md, member, row) ==
    LET csa    == CrossSection(Entry(md, "diameter", member))
        volume == FMul(Entry(md, "length", member), csa)
        weight == FMul(volume, row.Density)
        md1    == SetEntry(md, "weight", member, weight)
        md2    == SetEntry(md1, "cost", member, FMul(weight, row.Cost))
        md3    == SetEntry(md2, "yield_strength", member, row.Yield)
        md4    == SetEntry(md3, "max_force", member, FMul(row.Yield, csa))
    IN  SetEntry(md4, "max_Q_load", member,
                 MaxQLoad(Entry(md, "fraction", member), row.Yield, csa))

\* Calculate the maximum load (Q_u) able to sustained by member: one turn
MaxLoadStep(r) ==
    /\ pc[r] = "max_Q_load"
    /\ LET md     == member_dict[r]
           keys   == DictKeys(DictGet(md, "max_Q_load"))
           member == keys[cursor[r]]
           rows   == Loc(df, Entry(md, "material", member))
       IN  IF variant = "database" /\ rows = << >>
           THEN \* .values[0] of an empty selection
                /\ Raise(r, "IndexError")
                /\ UNCHANGED << member_dict, cursor >>
           ELSE /\ member_dict' = [member_dict EXCEPT ![r] =
                      IF variant = "database"
                      THEN StoreCapacityFromRow(md, member, rows[1])
                      ELSE StoreCapacity(md, member)]
                /\ Advance(r, Len(keys))
                /\ UNCHANGED error
    /\ UNCHANGED << inputs, geometry, governing, loopvars, fig, files >>

\* min(values): the first smallest value, by < from left to right
RECURSIVE MinFrom(_, _, _)
MinFrom(values, i, cur) ==
    IF i > Len(values) THEN cur
    ELSE MinFrom(values, i + 1, IF FLt(values[i], cur) THEN values[i] ELSE cur)

MinOf(values) == MinFrom(values, 2, values[1])

\* Only the first member at the minimum, ties dropped.
KeysWithValueFirst(d, lowest) ==
    << d[CHOOSE i \in 1..Len(d) :
            /\ FEq(d[i].v, lowest)
            /\ \A j \in 1..(i - 1) : ~FEq(d[j].v, lowest)].k >>

\* [key for key, val in d.items() if val == lowest]
KeysWithValue(d, lowest) ==
    DictKeys(SelectSeq(d, LAMBDA it : FEq(it.v, lowest)))

\* a / b where the database variant has numpy scalars and the hard-coded
\* variant Python numbers, for which the callers raise on a zero divisor.
Quotient(a, b) == IF variant = "database" THEN NpDivide(a, b) ELSE FDiv(a, b)

\* Python's / on a zero divisor
ZeroDivision(b) == variant = "hardcoded" /\ IsZero(b)

\* round(x, nd), numpy's for the numpy scalars of the database variant
Round(x, nd) == IF variant = "database" THEN NpRound(x, nd) ELSE RoundDec(x, nd)

\* The target multiplied in instead of divided out.
AllowableLoadTimes(lowest, target) == FMul(lowest, target)

\* lowest_strength / safety_factor
AllowableLoad(lowest, target) == Quotient(lowest, target)

\* Identifying the member that will fail first and the allowable load
Lowest(r) ==
    /\ pc[r] = "lowest"
    /\ LET d      == DictGet(member_dict[r], "max_Q_load")
           values == DictValues(d)
       IN  IF Len(values) > 1 /\ \E i \in 1..Len(values) : values[i].kind = "complex"
           THEN \* '<' not supported between complex numbers
                /\ Raise(r, "TypeError")
                /\ UNCHANGED governing
           ELSE IF ZeroDivision(safety_factor)
           THEN /\ Raise(r, "ZeroDivisionError")
                /\ lowest_strength' = [lowest_strength EXCEPT ![r] = MinOf(values)]
                /\ first_failure_member' =
                       [first_failure_member EXCEPT ![r] = KeysWithValue(d, MinOf(values))]
                /\ UNCHANGED allowable_load
           ELSE /\ lowest_strength' = [lowest_strength EXCEPT ![r] = MinOf(values)]
                /\ first_failure_member' =
                       [first_failure_member EXCEPT ![r] = KeysWithValue(d, MinOf(values))]
                /\ allowable_load' =
                       [allowable_load EXCEPT ![r] = AllowableLoad(MinOf(values), safety_factor)]
                /\ Goto(r, Successor(pc[r]))
                /\ UNCHANGED error
    /\ UNCHANGED << inputs, member_dict, geometry, loopvars, fig, files, cursor >>

\* member_max_Q / allowable_load
SafetyFactorOf(maxQ, allowable) == Quotient(maxQ, allowable)

\* member_max_Q / (allowable_load * 1.01) and member_max_Q / (allowable_load * .99)
PerturbedFactor(maxQ, allowable, scale) == Quotient(maxQ, FMul(allowable, scale))

\* round(((cur_safety_factor - SF)/cur_safety_factor) * 100, 4)
SensitivityOf(cur, perturbed) ==
    Round(FMul(Quotient(FSub(cur, perturbed), cur), IntVal(100)), 4)

\* member_dict["safety_factor"][...] = round(cur, 3); member_dict["sensitivity"][...] = [...]
StoreSafety(md, member, cur, up, down) ==
    SetEntry(SetEntry(md, "safety_factor", member, Round(cur, 3)),
             "sensitivity", member,
             List(<< SensitivityOf(cur, up), SensitivityOf(cur, down) >>))

\* Safety factor of each member at the allowable load, and sensitivity: one turn
SafetyStep(r) ==
    /\ pc[r] = "safety"
    /\ LET items == DictGet(member_dict[r], "max_Q_load")
           name  == items[cursor[r]].k
           maxQ  == items[cursor[r]].v
           al    == allowable_load[r]
       IN  IF ZeroDivision(al)
           THEN /\ Raise(r, "ZeroDivisionError")
                /\ UNCHANGED << member_dict, loopvars, cursor >>
           ELSE LET cur  == SafetyFactorOf(maxQ, al)
                    up   == PerturbedFactor(maxQ, al, UpOne)
                    down == PerturbedFactor(maxQ, al, DownOne)
                IN  /\ cur_safety_factor' = [cur_safety_factor EXCEPT ![r] = cur]
                    /\ SFup_one' = [SFup_one EXCEPT ![r] = up]
                    /\ SFdown_one' = [SFdown_one EXCEPT ![r] = down]
                    /\ IF ZeroDivision(cur)
                       THEN /\ Raise(r, "ZeroDivisionError")
                            /\ UNCHANGED << member_dict, cursor >>
                       ELSE /\ member_dict' = [member_dict EXCEPT ![r] =
                                  StoreSafety(@, name, cur, up, down)]
                            /\ Advance(r, Len(items))
                            /\ UNCHANGED error
    /\ UNCHANGED << inputs, geometry, governing, fig, files >>

\* The two lists appended to member_dict["points"][member] by the match.
PointsOf(v, md, member, half, height) ==
    LET twice == FMul(IntVal(2), half)
        far   == Literal(1, 1, 4)
        zero  == IntVal(0)
    IN  CASE member = "ABCD" ->
               << List(<< zero, half, twice, half, zero >>),
                  List(<< zero, height, zero, FNeg(height), zero >>) >>
          [] member = "AC" ->
               << List(<< zero, twice >>), List(<< zero, zero >>) >>
          [] member = "EB" ->
               << List(<< half, half >>),
                  List(<< height, IF v = "hardcoded" THEN FMul(height, far)
                                  ELSE Entry(md, "length", "EB") >>) >>
          [] member = "FD" ->
               << List(<< half, half >>),
                  List(<< FNeg(height),
                          IF v = "hardcoded" THEN FMul(FNeg(height), far)
                          ELSE FNeg(Entry(md, "length", "FD")) >>) >>
          [] OTHER -> << >>

\* Calculate plotting points: one turn
PointsStep(r) ==
    /\ pc[r] = "points"
    /\ LET md     == member_dict[r]
           keys   == DictKeys(DictGet(md, "points"))
           member == keys[cursor[r]]
           old    == Entry(md, "points", member)
       IN  /\ member_dict' = [member_dict EXCEPT ![r] =
                 SetEntry(md, "points", member,
                          List(old.items \o PointsOf(variant, md, member,
                                                     half_length[r], ABCD_height[r])))]
           /\ Advance(r, Len(keys))
    /\ UNCHANGED << inputs, geometry, governing, loopvars, fig, files, error >>

\* Red for the first failing member only.
PlotColorFirst(member, failing) ==
    IF failing # << >> /\ failing[1] = member THEN "red" ELSE "green"

\* plot_color of a member
PlotColor(member, failing) ==
    IF \E i \in 1..Len(failing) : failing[i] = member THEN "red" ELSE "green"

\* Plots: the assembly drawn member by member, the titles and the bar chart
Plot(r) ==
    /\ pc[r] = "plot"
    /\ LET keys == DictKeys(DictGet(member_dict[r], "points"))
           bars == DictGet(member_dict[r], "safety_factor")
       IN  IF ~draws_nonfinite /\ \E i \in 1..Len(bars) : IsNaN(bars[i].v) \/ IsInf(bars[i].v)
           THEN /\ Raise(r, "ValueError")
                /\ UNCHANGED fig
           ELSE /\ fig' = [fig EXCEPT ![r] =
                      [colors   |-> [i \in 1..Len(keys) |->
                                        Item(keys[i], PlotColor(keys[i], first_failure_member[r]))],
                       suptitle |-> first_failure_member[r],
                       title    |-> Round(allowable_load[r], 3),
                       bars     |-> bars]]
                /\ Goto(r, Successor(pc[r]))
                /\ UNCHANGED error
    /\ UNCHANGED << inputs, member_dict, geometry, governing, loopvars, files, cursor >>

\* f"save_data\\{date_time.strftime('%d%m%y_%H%M%S')}" and ..._run_info.txt
FigureName(stamp) == << "save_data", stamp >>

ReportName(stamp) == << "save_data", stamp, "_run_info.txt" >>

\* A report that also records when the run was started.
ReportTextStamped(md, stamp) ==
    [header |-> << "Member dictionary", stamp >>,
     body   |-> [i \in 1..Len(md) |-> [prop |-> md[i].k, lines |-> md[i].v]]]

\* What save_run writes into the text file: the header, then every property
\* with one line per member.
ReportText(md, stamp) ==
    [header |-> "Member dictionary",
     body   |-> [i \in 1..Len(md) |-> [prop |-> md[i].k, lines |-> md[i].v]]]

\* save_run()
SaveRun(r) ==
    /\ pc[r] = "save_run"
    /\ files' = DictSet(DictSet(files, FigureName(date_time[r]), fig[r]),
                        ReportName(date_time[r]),
                        ReportText(member_dict[r], date_time[r]))
    /\ Goto(r, Successor(pc[r]))
    /\ UNCHANGED << inputs, member_dict, geometry, governing, loopvars, fig, cursor, error >>

\* plt.show()
Show(r) ==
    /\ pc[r] = "show"
    /\ Goto(r, Successor(pc[r]))
    /\ UNCHANGED << inputs, member_dict, geometry, governing, loopvars, fig, files,
                    cursor, error >>

Next ==
    \/ \E r \in runs : Geometry(r)
    \/ \E r \in runs : Fractions(r)
    \/ \E r \in runs : MaxLoadStep(r)
    \/ \E r \in runs : Lowest(r)
    \/ \E r \in runs : SafetyStep(r)
    \/ \E r \in runs : PointsStep(r)
    \/ \E r \in runs : Plot(r)
    \/ \E r \in runs : SaveRun(r)
    \/ \E r \in runs : Show(r)

Spec == Init /\ [][Next]_vars

SpecPair == InitPair /\ [][Next]_vars

(***************************************************************************)
(* Properties                                                              *)
(***************************************************************************)
Position(label) ==
    IF label = "done" THEN Len(Program) + 1
    ELSE IF label = "crashed" THEN 0
    ELSE CHOOSE j \in 1..Len(Program) : Program[j] = label

\* The run has completed the statement `label` and has not crashed.
Past(r, label) == Position(pc[r]) > Position(label)

MaxQ(r, m) == Entry(member_dict[r], "max_Q_load", m)

\* m carries the lowest maximum load of the four members.
IsGoverning(r, m) == \A n \in Members : FLe(MaxQ(r, m), MaxQ(r, n))

InList(seq, x) == \E i \in 1..Len(seq) : seq[i] = x

\* 0 < AC < ABCD / 2
GeometryValid(r) ==
    LET ac   == Entry(member_dict[r], "length", "AC")
        abcd == Entry(member_dict[r], "length", "ABCD")
    IN  FLt(Zero, ac) /\ FLt(ac, FDiv(abcd, IntVal(2)))

\* a and b are real numbers of the same sign at most 4 units in the last
\* place apart.
Close(a, b) ==
    IF a.m = 0 \/ b.m = 0 THEN a.m = b.m
    ELSE /\ IsReal(a) /\ IsReal(b) /\ a.s = b.s
         /\ \/ a.e = b.e /\ a.m - b.m \in -4..4
            \/ a.e = b.e + 1 /\ 2 * a.m - b.m \in -8..8
            \/ b.e = a.e + 1 /\ 2 * b.m - a.m \in -8..8

\* C1: for a valid geometry, once the safety-factor loop has run, the safety
\* factor stored for every governing member (lowest max_Q_load) is the target
\* safety factor rounded to 3 decimals.
C1_GoverningFactorIsTarget ==
    \A r \in runs :
        (Past(r, "safety") /\ GeometryValid(r)) =>
            \A m \in Members :
                IsGoverning(r, m) =>
                    Entry(member_dict[r], "safety_factor", m) = RoundDec(safety_factor, 3)

C1_Witness ==
    \E r \in runs :
        /\ pc[r] = "done"
        /\ safety_factor = Literal(1, 7, 10)
        /\ \E m \in Members :
              /\ IsGoverning(r, m)
              /\ Entry(member_dict[r], "safety_factor", m) = Num("dec", 1, 1700, -3)

\* C2: once computed, first_failure_member lists exactly the members whose
\* max_Q_load is the minimum (at least one, ties included), lowest_strength
\* is that minimum and allowable_load is it divided by the target; for
\* ABCD=60, AC=15, all steel, diameters 3/8 (ABCD, AC), target 2.5 the
\* failure set is ABCD and AC, without EB and FD.
Scenario(r) ==
    /\ variant = "hardcoded"
    /\ safety_factor = FDiv(IntVal(5), IntVal(2))
    /\ Entry(member_dict[r], "length", "ABCD") = IntVal(60)
    /\ Entry(member_dict[r], "length", "AC") = IntVal(15)
    /\ Entry(member_dict[r], "diameter", "AC") = FDiv(IntVal(3), IntVal(8))
    /\ Entry(member_dict[r], "material", "AC") = "steel"

C2_FailureSetIsArgMin ==
    \A r \in runs :
        Past(r, "lowest") =>
            /\ first_failure_member[r] # << >>
            /\ \A m \in Members : InList(first_failure_member[r], m) <=> IsGoverning(r, m)
            /\ \A i \in 1..Len(first_failure_member[r]) :
                  first_failure_member[r][i] \in Members
            /\ \E m \in Members : FEq(lowest_strength[r], MaxQ(r, m)) /\ IsGoverning(r, m)
            /\ Close(FMul(allowable_load[r], safety_factor), lowest_strength[r])
            /\ Scenario(r) => first_failure_member[r] = << "ABCD", "AC" >>

C2_Witness ==
    \E r \in runs :
        /\ Scenario(r)
        /\ pc[r] = "done"
        /\ first_failure_member[r] = << "ABCD", "AC" >>
        /\ FLt(MaxQ(r, "AC"), MaxQ(r, "EB"))

\* The member the last completed turn of the safety-factor loop was about.
Turned(r) ==
    LET keys == DictKeys(DictGet(member_dict[r], "max_Q_load"))
    IN  IF pc[r] = "safety" THEN SubSeq(keys, 1, cursor[r] - 1)
        ELSE IF Past(r, "safety") THEN keys ELSE << >>

\* C3: for every member with a positive max_Q_load that the safety-factor
\* loop has handled, the factor at 1.01 times the allowable load is strictly
\* below the nominal factor and the one at 0.99 times strictly above, and the
\* stored sensitivity pair is (strictly positive, strictly negative).
C3_SensitivitySigns ==
    \A r \in runs :
        /\ (Turned(r) # << >> /\ FLt(Zero, MaxQ(r, Turned(r)[Len(Turned(r))]))) =>
              /\ FLt(SFup_one[r], cur_safety_factor[r])
              /\ FLt(cur_safety_factor[r], SFdown_one[r])
        /\ \A i \in 1..Len(Turned(r)) :
              FLt(Zero, MaxQ(r, Turned(r)[i])) =>
                  LET sens == Entry(member_dict[r], "sensitivity", Turned(r)[i])
                  IN  /\ sens.kind = "list"
                      /\ Len(sens.items) = 2
                      /\ sens.items[1].kind = "dec"
                      /\ sens.items[1].s = 1 /\ sens.items[1].m > 0
                      /\ sens.items[2].kind = "dec"
                      /\ sens.items[2].s = -1 /\ sens.items[2].m > 0

\* AC >= 2 * ABCD / 4
LimitReached(r) ==
    LET ac   == Entry(member_dict[r], "length", "AC")
        abcd == Entry(member_dict[r], "length", "ABCD")
    IN  FLe(FMul(IntVal(2), FDiv(abcd, IntVal(4))), ac)

\* C4: with AC at or beyond the geometric limit the run is stopped as an
\* invalid configuration before anything is derived: the height is never a
\* complex number and no max_force or max_Q_load is computed.
C4_InvalidGeometryFlagged ==
    \A r \in runs :
        LimitReached(r) =>
            /\ ABCD_height[r].kind # "complex"
            /\ DictGet(member_dict[r], "max_force") = PlaceholdersOne
            /\ DictGet(member_dict[r], "max_Q_load") = Placeholders(IntVal(0))
            /\ error[r] \notin {"ZeroDivisionError", "TypeError", "ValueError"}
            /\ \A m \in Members :
                  LET stored == Entry(member_dict[r], "safety_factor", m)
                  IN  ~IsNaN(stored) /\ ~IsInf(stored)

\* The material names each variant knows.
Recognized(name) ==
    IF variant = "hardcoded" THEN name \in {"steel", "aluminum"}
    ELSE Loc(df, name) # << >>

\* C5: a member whose material name is not recognized never gets a
\* max_force or max_Q_load computed from some recognized material's strength.
C5_UnknownMaterialGetsNoStrength ==
    \A r \in runs : \A m \in Members :
        ~Recognized(Entry(member_dict[r], "material", m)) =>
            /\ Entry(member_dict[r], "max_force", m) = DictGet(PlaceholdersOne, m)
            /\ Entry(member_dict[r], "max_Q_load", m) = IntVal(0)

PropertyNames ==
    IF variant = "hardcoded"
    THEN { "length", "diameter", "material", "points", "fraction", "max_force",
           "max_Q_load", "safety_factor", "sensitivity" }
    ELSE { "length", "diameter", "material", "yield_strength", "weight", "cost",
           "points", "fraction", "max_force", "max_Q_load", "safety_factor",
           "sensitivity" }

\* C6 as claimed: every per-property mapping has the key set {ABCD, AC, EB, FD}.
C6_AllMappingsHaveFourKeys ==
    \A r \in runs : \A i \in 1..Len(member_dict[r]) :
        KeySet(member_dict[r][i].v) = Members

\* C6 as amended: at every point of the run, member_dict has exactly its
\* declared properties and each maps exactly {ABCD, AC, EB, FD}, except length
\* in the hard-coded variant, which maps exactly {ABCD, AC}.
C6_KeySetsFixed ==
    \A r \in runs :
        /\ KeySet(member_dict[r]) = PropertyNames
        /\ Len(member_dict[r]) = Cardinality(PropertyNames)
        /\ \A i \in 1..Len(member_dict[r]) :
              /\ KeySet(member_dict[r][i].v) =
                    IF variant = "hardcoded" /\ member_dict[r][i].k = "length"
                    THEN {"ABCD", "AC"} ELSE Members
              /\ Len(member_dict[r][i].v) = Cardinality(KeySet(member_dict[r][i].v))

C6_Witness ==
    \E r \in runs :
        /\ pc[r] = "done"
        /\ variant = "hardcoded"
        /\ KeySet(DictGet(member_dict[r], "length")) = {"ABCD", "AC"}
        /\ Entry(member_dict[r], "fraction", "ABCD") # IntVal(0)

\* The strength the closed form uses for a recognized material [ksi].
ClosedFormStrength(name) ==
    IF variant = "hardcoded"
    THEN (IF name = "steel" THEN IntVal(70) ELSE IntVal(38))
    ELSE Loc(df, name)[1].Yield

\* C7: for a valid geometry and recognized materials the stored values agree
\* with the closed form to floating-point tolerance: height^2 = (ABCD/4)^2 -
\* (AC/2)^2, fraction[ABCD] * (ABCD/4) = 2 * height, fraction[AC] * (AC/2) =
\* height, fraction[EB] = fraction[FD] = 1, 4 * max_force[m] = strength * pi *
\* diameter[m]^2 and max_Q_load[m] = fraction[m] * max_force[m].
C7_ClosedForm ==
    \A r \in runs :
        (Past(r, "max_Q_load") /\ GeometryValid(r)) =>
            LET md   == member_dict[r]
                side == FDiv(Entry(md, "length", "ABCD"), IntVal(4))
                half == FDiv(Entry(md, "length", "AC"), IntVal(2))
                h    == ABCD_height[r]
            IN  /\ h.kind = "float" /\ FLt(Zero, h)
                /\ Close(FMul(h, h), FSub(FMul(side, side), FMul(half, half)))
                /\ Close(FMul(Entry(md, "fraction", "ABCD"), side), FMul(IntVal(2), h))
                /\ Close(FMul(Entry(md, "fraction", "AC"), half), h)
                /\ Entry(md, "fraction", "EB") = IntVal(1)
                /\ Entry(md, "fraction", "FD") = IntVal(1)
                /\ \A m \in Members :
                      LET d == Entry(md, "diameter", m)
                          u == ClosedFormStrength(Entry(md, "material", m))
                      IN  /\ Recognized(Entry(md, "material", m)) =>
                                Close(FMul(Entry(md, "max_force", m), IntVal(4)),
                                      FMul(u, FMul(PiLiteral, FMul(d, d))))
                          /\ Close(MaxQ(r, m),
                                   FMul(Entry(md, "fraction", m), Entry(md, "max_force", m)))

\* The example inputs: ABCD = 60, AC = 24, steel with aluminum AC of diameter
\* 1, where height = 9, fraction[ABCD] = 1.2 and fraction[AC] = 0.75.
C7_Witness ==
    \E r \in runs :
        /\ pc[r] = "done"
        /\ variant = "hardcoded"
        /\ Entry(member_dict[r], "material", "AC") = "aluminum"
        /\ Entry(member_dict[r], "diameter", "AC") = IntVal(1)
        /\ ABCD_height[r] = FromInt(9)
        /\ Entry(member_dict[r], "fraction", "ABCD") = FDiv(IntVal(6), IntVal(5))
        /\ Entry(member_dict[r], "fraction", "AC") = FDiv(IntVal(3), IntVal(4))

Finished(r) == pc[r] \in {"done", "crashed"}

\* C8: two runs started from identical inputs end alike: the same member_dict,
\* failure set, lowest and allowable load, figure and exception, and the same
\* report text; the files written are named after the runs' time stamps only.
C8_RunsAgree ==
    \A r1 \in runs : \A r2 \in runs :
        (Finished(r1) /\ Finished(r2)) =>
            /\ pc[r1] = pc[r2]
            /\ error[r1] = error[r2]
            /\ member_dict[r1] = member_dict[r2]
            /\ first_failure_member[r1] = first_failure_member[r2]
            /\ lowest_strength[r1] = lowest_strength[r2]
            /\ allowable_load[r1] = allowable_load[r2]
            /\ fig[r1] = fig[r2]
            /\ pc[r1] = "done" =>
                  /\ DictGet(files, ReportName(date_time[r1])) =
                        DictGet(files, ReportName(date_time[r2]))
                  /\ DictGet(files, FigureName(date_time[r1])) =
                        DictGet(files, FigureName(date_time[r2]))
                  /\ {FigureName(date_time[r1]), ReportName(date_time[r1])} \subseteq KeySet(files)
                  /\ KeySet(files) \subseteq
                        UNION {{FigureName(date_time[r]), ReportName(date_time[r])} : r \in runs}

C8_Witness ==
    \E r1 \in runs : \E r2 \in runs :
        /\ r1 # r2
        /\ pc[r1] = "done" /\ pc[r2] = "done"
        /\ date_time[r1] # date_time[r2]
        /\ Len(files) = 4

\* The value a derived entry has in the member_dict literal.
InitialEntry(prop, member) ==
    IF prop \in {"fraction", "max_force"} THEN DictGet(PlaceholdersOne, member)
    ELSE IF prop = "points" THEN List(<< >>)
    ELSE IntVal(0)

\* The entries the code fills in (fraction of EB and FD is fixed at 1).
IsDerived(prop, member) ==
    \/ prop \in {"points", "max_force", "max_Q_load", "safety_factor", "sensitivity",
                 "yield_strength", "weight", "cost"}
    \/ prop = "fraction" /\ member \in {"ABCD", "AC"}

\* No derived entry of the written report holds its initial value.
ReportPopulated(text) ==
    \A i \in 1..Len(text.body) : \A j \in 1..Len(text.body[i].lines) :
        LET prop == text.body[i].prop
            line == text.body[i].lines[j]
        IN  IsDerived(prop, line.k) => line.v # InitialEntry(prop, line.k)

Touched(r, prop) ==
    \E m \in Members : Entry(member_dict[r], prop, m) # InitialEntry(prop, m)

\* C9: the derived properties are filled in dependency order (nothing is
\* derived before the geometry and the fractions, the allowable load only after
\* all four max loads, safety factors and sensitivities only after the
\* allowable load), the report save_run writes has every derived entry filled
\* in, and member_dict never changes once the report is written.
C9_PopulatedInOrderThenFrozen ==
    /\ [](\A r \in runs :
            /\ (Touched(r, "max_force") \/ Touched(r, "max_Q_load")) =>
                  /\ ABCD_height[r] # Unset
                  /\ pc[r] \notin {"geometry", "fractions"}
            /\ allowable_load[r] # Unset =>
                  \A m \in Members :
                      Entry(member_dict[r], "max_force", m) # InitialEntry("max_force", m)
            /\ (Touched(r, "safety_factor") \/ Touched(r, "sensitivity")) =>
                  allowable_load[r] # Unset
            /\ Past(r, "save_run") =>
                  /\ DictHas(files, ReportName(date_time[r]))
                  /\ ReportPopulated(DictGet(files, ReportName(date_time[r]))))
    /\ [][\A r \in runs :
            DictHas(files, ReportName(date_time[r])) => member_dict'[r] = member_dict[r]]_vars

C9_Witness ==
    \E r \in runs :
        /\ pc[r] = "done"
        /\ variant = "database"
        /\ DictHas(files, ReportName(date_time[r]))
        /\ DictGet(files, ReportName(date_time[r])) = ReportText(member_dict[r], date_time[r])
        /\ Touched(r, "weight")

\* The member the last completed turn of the safety-factor loop handled.
LastTurned(r) == Turned(r)[Len(Turned(r))]

====
